---- MODULE Spec2Model ----
(***************************************************************************)
(* Entropy-based binning (entropy_based_binning.py).                       *)
(*                                                                         *)
(* One call of bin_sequence(a, nbins) is modelled as a state machine whose *)
(* program counter walks the statements of the function: the assertion,    *)
(* the computation of the value range, the for loop over the partition     *)
(* generator, the loop body and the final return.                          *)
(*                                                                         *)
(* Representation of numbers.                                              *)
(*  - An element of the input is a rational with denominator Denom, held   *)
(*    as its numerator (Denom = 2: 3 is 1.5, 4 is 2.0), or the marker NaN. *)
(*  - An entropy is held exactly.  For a label vector with N non-missing   *)
(*    entries whose occupied labels have counts c_1..c_k,                  *)
(*        -sum (c_i/N) log2 (c_i/N) = log2 N - log2(K) / N,                *)
(*    with K = c_1^c_1 * ... * c_k^c_k.  Within one call N is fixed, so    *)
(*    for k >= 2 the entropy is positive and is the larger the smaller K   *)
(*    is.  The value 0 stands for the entropy 0 (k = 1, and the literal    *)
(*    0. of line 83), a value K >= 1 for the positive entropy above, and   *)
(*    NaNH for a not-a-number.                                             *)
(***************************************************************************)
EXTENDS Integers, Sequences, FiniteSets, TLC

\* ------------------------------------------------------------------ bounds
MaxLen == 3
MaxVal == 4
MaxNbins == 4
Denom == 2

\* --------------------------------------------------------------- constants
NaN == -1
NaNH == -1

VARIABLES a, nbins, pc, amin, amax, best_h, best_binning,
          gen, indices, binning, evaluated, outcome, result

vars == <<a, nbins, pc, amin, amax, best_h, best_binning,
          gen, indices, binning, evaluated, outcome, result>>

\* ----------------------------------------------------------------- helpers
RECURSIVE Pow(_, _)
Pow(b, e) == IF e = 0 THEN 1 ELSE b * Pow(b, e - 1)

RECURSIVE SeqMin(_)
SeqMin(s) ==
    IF Len(s) = 1 THEN s[1]
    ELSE LET m == SeqMin(Tail(s)) IN IF s[1] < m THEN s[1] ELSE m

RECURSIVE SeqMax(_)
SeqMax(s) ==
    IF Len(s) = 1 THEN s[1]
    ELSE LET m == SeqMax(Tail(s)) IN IF s[1] > m THEN s[1] ELSE m

IsNaN(x) == x = NaN

NotNaN(x) == x # NaN

\* variant: every number passes
IsIntegerLoose(x) == ~IsNaN(x)

\* np.equal(np.mod(x, 1), 0): the fractional part is zero; false for nan
IsInteger(x) == (~IsNaN(x)) /\ (x % Denom = 0)

\* np.all(np.logical_or(_isinteger(a), np.isnan(a)))
AllIntegerOrNaN(s) == \A i \in 1..Len(s) : IsInteger(s[i]) \/ IsNaN(s[i])

\* a[~np.isnan(a)]
NonNaN(s) == SelectSeq(s, NotNaN)

\* np.int(x): truncation of a non-negative float
ToInt(x) == x \div Denom

\* tuple(range(lo, hi + 1))
RangeTuple(lo, hi) == [i \in 1..(hi - lo + 1) |-> lo + i - 1]

\* ----------------------------------------------------- itertools.combinations
\* variant: the test r > n is missing
CombEmptyNever(n, r) == FALSE

\* if r > n: return
CombEmpty(n, r) == r > n

\* indices = list(range(r)): the first combination of positions
CombFirst(r) == [p \in 1..r |-> p - 1]

\* the positions that can still be advanced: indices[i] != i + n - r
CombMovable(ix, n, r) == {p \in 1..r : ix[p] # (p - 1) + n - r}

CombHasNext(ix, n, r) == CombMovable(ix, n, r) # {}

\* variant: the positions after the advanced one are not reset
CombNextNoReset(ix, n, r) ==
    LET i == CHOOSE p \in CombMovable(ix, n, r) :
                 \A q \in CombMovable(ix, n, r) : q <= p
    IN [p \in 1..r |-> IF p = i THEN ix[i] + 1 ELSE ix[p]]

\* advance the rightmost movable position and reset those after it
CombNext(ix, n, r) ==
    LET i == CHOOSE p \in CombMovable(ix, n, r) :
                 \A q \in CombMovable(ix, n, r) : q <= p
    IN [p \in 1..r |-> IF p < i THEN ix[p] ELSE ix[i] + 1 + (p - i)]

\* the combination of range(1, nbase) at the positions ix
Cuts(ix) == [p \in 1..Len(ix) |-> ix[p] + 1]

\* base[lo:hi], a slice: both ends are clipped to the length
Slice(base, lo, hi) ==
    LET clip(x) == IF x > Len(base) THEN Len(base) ELSE x
    IN SubSeq(base, clip(lo) + 1, clip(hi))

\* [base[lo:hi] for lo, hi in zip((0,) + ixs, ixs + (nbase,))]
Bins(base, ixs) ==
    LET los == <<0>> \o ixs
        his == ixs \o <<Len(base)>>
    IN [k \in 1..Len(los) |-> Slice(base, los[k], his[k])]

\* ------------------------------------------------------------ _apply_binning
\* for some_number in some_bin: b[a == some_number] = ii
RECURSIVE ApplyBin(_, _, _, _)
ApplyBin(b, s, some_bin, ii) ==
    IF some_bin = <<>> THEN b
    ELSE ApplyBin([i \in 1..Len(s) |->
                      IF s[i] = Denom * Head(some_bin) THEN ii ELSE b[i]],
                  s, Tail(some_bin), ii)

\* for ii, some_bin in enumerate(binning)
RECURSIVE ApplyBins(_, _, _, _)
ApplyBins(b, s, bs, ii) ==
    IF bs = <<>> THEN b
    ELSE ApplyBins(ApplyBin(b, s, Head(bs), ii), s, Tail(bs), ii + 1)

RECURSIVE Reverse(_)
Reverse(s) == IF s = <<>> THEN <<>> ELSE Append(Reverse(Tail(s)), Head(s))

\* variant: b starts filled with 0
ApplyBinningZeroFill(s, bs) == ApplyBins([i \in 1..Len(s) |-> 0], s, bs, 0)

\* variant: the bins are numbered from the last one
ApplyBinningReversed(s, bs) ==
    ApplyBins([i \in 1..Len(s) |-> NaN], s, Reverse(bs), 0)

\* b = np.full_like(a, np.nan); ...; return b.astype(a.dtype)
ApplyBinning(s, bs) == ApplyBins([i \in 1..Len(s) |-> NaN], s, bs, 0)

\* -------------------------------------------------------------------- _get_h
\* np.bincount(b[~np.isnan(b)].astype(np.int)): one count per label 0..max
BinCount(b) ==
    LET labels == NonNaN(b)
        top == IF labels = <<>> THEN 0 - 1 ELSE SeqMax(labels)
    IN [k \in 0..top |->
           Cardinality({i \in 1..Len(labels) : labels[i] = k})]

RECURSIVE PowProd(_, _)
PowProd(counts, k) ==
    IF k < 0 THEN 1 ELSE Pow(counts[k], counts[k]) * PowProd(counts, k - 1)

\* variant: a label without occurrence contributes 0 to the sum
GetHZeroFilled(b) ==
    LET counts == BinCount(b)
        occupied == {k \in DOMAIN counts : counts[k] > 0}
    IN IF Cardinality(occupied) <= 1 THEN 0
       ELSE PowProd(counts, Cardinality(DOMAIN counts) - 1)

\* -np.sum(np.ma.filled(pdf * np.log2(pdf), fill_value=0)): the product
\* 0 * log2(0) is nan, pdf * np.log2(pdf) is a plain array without a mask, so
\* np.ma.filled returns it unchanged and the sum is nan
GetH(b) ==
    LET counts == BinCount(b)
        top == Cardinality(DOMAIN counts) - 1
    IN IF \E k \in DOMAIN counts : counts[k] = 0 THEN NaNH
       ELSE IF top <= 0 THEN 0
       ELSE PowProd(counts, top)

\* --------------------------------------------------------- _evaluate_binning
EvaluateBinning(s, bs) == GetH(ApplyBinning(s, bs))

\* the order of two entropies that are not nan (see the representation)
EntropyHigher(h1, h2) == h1 # 0 /\ (h2 = 0 \/ h1 < h2)

\* variant: h >= best_h, a tie replaces the candidate kept so far
HGreaterOrEqual(h1, h2) ==
    /\ h1 # NaNH
    /\ h2 # NaNH
    /\ (EntropyHigher(h1, h2) \/ h1 = h2)

\* h > best_h on floats: false as soon as one side is nan
HGreater(h1, h2) ==
    /\ h1 # NaNH
    /\ h2 # NaNH
    /\ EntropyHigher(h1, h2)

\* ------------------------------------------- bin_sequence as a function
\* lines 85-89 from the partition at the positions ix on, best being the
\* pair (best_h, best_binning) reached so far
RECURSIVE SearchFrom(_, _, _, _, _, _)
SearchFrom(s, base, n, r, ix, best) ==
    LET bs == Bins(base, Cuts(ix))
        h == EvaluateBinning(s, bs)
        kept == IF HGreater(h, best.h) THEN [h |-> h, binning |-> bs]
                ELSE best
    IN IF CombHasNext(ix, n, r)
       THEN SearchFrom(s, base, n, r, CombNext(ix, n, r), kept)
       ELSE kept

\* lines 80-91: the outcome and the value returned
BinSequence(s, k) ==
    IF ~AllIntegerOrNaN(s)
    THEN [outcome |-> "AssertionError", result |-> <<>>]
    ELSE IF NonNaN(s) = <<>> \/ k - 1 < 0
    THEN [outcome |-> "ValueError", result |-> <<>>]
    ELSE LET base == RangeTuple(ToInt(SeqMin(NonNaN(s))),
                                ToInt(SeqMax(NonNaN(s))))
             n == Len(base) - 1
             none == [h |-> 0, binning |-> <<>>]
             best == IF CombEmpty(n, k - 1) THEN none
                     ELSE SearchFrom(s, base, n, k - 1, CombFirst(k - 1), none)
         IN IF best.binning = <<>>
            THEN [outcome |-> "UnboundLocalError", result |-> <<>>]
            ELSE [outcome |-> "returned",
                  result |-> ApplyBinning(s, best.binning)]

\* --------------------------------------------------------------------- input
Elems == {Denom * v : v \in 0..MaxVal} \cup {Denom + 1} \cup {NaN}

BoundedSeqs == UNION {[1..n -> Elems] : n \in 0..MaxLen}

\* the worked example [0,0,0,0,1,1,2,2,2,2] with nbins = 2
ExampleA == [i \in 1..10 |-> IF i <= 4 THEN 0
                             ELSE IF i <= 6 THEN Denom ELSE 2 * Denom]

ExampleOut == [i \in 1..10 |-> IF i <= 4 THEN 0 ELSE 1]

\* the example [1,1,2,2] with nbins = 5
ExampleInfeasible == <<Denom, Denom, 2 * Denom, 2 * Denom>>

\* [0,1,2,2] with nbins = 2: the second partition is strictly better
ExampleLater == <<0, Denom, 2 * Denom, 2 * Denom>>

Inputs ==
    (BoundedSeqs \X (0..MaxNbins))
        \cup {<<ExampleA, 2>>, <<ExampleInfeasible, 5>>, <<ExampleLater, 2>>}

Unbound == <<>>

Init ==
    /\ \E in \in Inputs : a = in[1] /\ nbins = in[2]
    /\ pc = "assert"
    /\ amin = 0
    /\ amax = 0
    /\ best_h = 0
    /\ best_binning = Unbound
    /\ gen = "fresh"
    /\ indices = <<>>
    /\ binning = <<>>
    /\ evaluated = <<>>
    /\ outcome = "none"
    /\ result = <<>>

\* ------------------------------------------------------------------- actions
\* line 80, the assertion holds
AssertPass ==
    /\ pc = "assert"
    /\ AllIntegerOrNaN(a)
    /\ pc' = "range"
    /\ UNCHANGED <<a, nbins, amin, amax, best_h, best_binning, gen, indices,
                   binning, evaluated, outcome, result>>

\* line 80, the assertion fails
AssertFail ==
    /\ pc = "assert"
    /\ ~AllIntegerOrNaN(a)
    /\ pc' = "done"
    /\ outcome' = "AssertionError"
    /\ UNCHANGED <<a, nbins, amin, amax, best_h, best_binning, gen, indices,
                   binning, evaluated, result>>

\* lines 82-83
ComputeRange ==
    /\ pc = "range"
    /\ NonNaN(a) # <<>>
    /\ amin' = ToInt(SeqMin(NonNaN(a)))
    /\ amax' = ToInt(SeqMax(NonNaN(a)))
    /\ best_h' = 0
    /\ pc' = "for"
    /\ UNCHANGED <<a, nbins, best_binning, gen, indices, binning, evaluated,
                   outcome, result>>

\* line 82 on a sequence without a non-missing element: np.nanmin of an empty
\* array, or np.int(nan), raises ValueError
ComputeRangeFail ==
    /\ pc = "range"
    /\ NonNaN(a) = <<>>
    /\ pc' = "done"
    /\ outcome' = "ValueError"
    /\ UNCHANGED <<a, nbins, amin, amax, best_h, best_binning, gen, indices,
                   binning, evaluated, result>>

\* line 85 with lines 133-135, first request: combinations(…, r) with r < 0
GenBadCount ==
    /\ pc = "for"
    /\ gen = "fresh"
    /\ nbins - 1 < 0
    /\ pc' = "done"
    /\ outcome' = "ValueError"
    /\ UNCHANGED <<a, nbins, amin, amax, best_h, best_binning, gen, indices,
                   binning, evaluated, result>>

\* line 85 with lines 133-137, first request: the first partition
GenFirst ==
    /\ pc = "for"
    /\ gen = "fresh"
    /\ nbins - 1 >= 0
    /\ ~CombEmpty((amax - amin + 1) - 1, nbins - 1)
    /\ gen' = "running"
    /\ indices' = CombFirst(nbins - 1)
    /\ binning' = Bins(RangeTuple(amin, amax), Cuts(indices'))
    /\ pc' = "body"
    /\ UNCHANGED <<a, nbins, amin, amax, best_h, best_binning, evaluated,
                   outcome, result>>

\* line 85 with lines 133-135, first request: r > n, nothing is generated
GenNone ==
    /\ pc = "for"
    /\ gen = "fresh"
    /\ nbins - 1 >= 0
    /\ CombEmpty((amax - amin + 1) - 1, nbins - 1)
    /\ gen' = "exhausted"
    /\ pc' = "return"
    /\ UNCHANGED <<a, nbins, amin, amax, best_h, best_binning, indices,
                   binning, evaluated, outcome, result>>

\* line 85 with lines 135-137, a later request: the next partition
GenNext ==
    /\ pc = "for"
    /\ gen = "running"
    /\ CombHasNext(indices, (amax - amin + 1) - 1, nbins - 1)
    /\ indices' = CombNext(indices, (amax - amin + 1) - 1, nbins - 1)
    /\ binning' = Bins(RangeTuple(amin, amax), Cuts(indices'))
    /\ pc' = "body"
    /\ UNCHANGED <<a, nbins, amin, amax, best_h, best_binning, gen, evaluated,
                   outcome, result>>

\* line 85 with line 135, a later request: the combinations are exhausted
GenExhausted ==
    /\ pc = "for"
    /\ gen = "running"
    /\ ~CombHasNext(indices, (amax - amin + 1) - 1, nbins - 1)
    /\ gen' = "exhausted"
    /\ pc' = "return"
    /\ UNCHANGED <<a, nbins, amin, amax, best_h, best_binning, indices,
                   binning, evaluated, outcome, result>>

\* lines 86-89
LoopBody ==
    /\ pc = "body"
    /\ LET h == EvaluateBinning(a, binning)
       IN /\ evaluated' = Append(evaluated,
                 [cuts |-> Cuts(indices), binning |-> binning, h |-> h])
          /\ IF HGreater(h, best_h)
             THEN best_h' = h /\ best_binning' = binning
             ELSE UNCHANGED <<best_h, best_binning>>
    /\ pc' = "for"
    /\ UNCHANGED <<a, nbins, amin, amax, gen, indices, binning, outcome,
                   result>>

\* line 91, best_binning was assigned
Return ==
    /\ pc = "return"
    /\ best_binning # Unbound
    /\ result' = ApplyBinning(a, best_binning)
    /\ outcome' = "returned"
    /\ pc' = "done"
    /\ UNCHANGED <<a, nbins, amin, amax, best_h, best_binning, gen, indices,
                   binning, evaluated>>

\* line 91, best_binning was never assigned
ReturnUnbound ==
    /\ pc = "return"
    /\ best_binning = Unbound
    /\ outcome' = "UnboundLocalError"
    /\ pc' = "done"
    /\ UNCHANGED <<a, nbins, amin, amax, best_h, best_binning, gen, indices,
                   binning, evaluated, result>>

Next ==
    \/ AssertPass
    \/ AssertFail
    \/ ComputeRange
    \/ ComputeRangeFail
    \/ GenBadCount
    \/ GenFirst
    \/ GenNone
    \/ GenNext
    \/ GenExhausted
    \/ LoopBody
    \/ Return
    \/ ReturnUnbound

Spec == Init /\ [][Next]_vars

\* the run of the statements ends as the function BinSequence says
StepwiseAgrees ==
    pc = "done" =>
        [outcome |-> outcome, result |-> result] = BinSequence(a, nbins)

TypeOK ==
    /\ pc \in {"assert", "range", "for", "body", "return", "done"}
    /\ gen \in {"fresh", "running", "exhausted"}
    /\ outcome \in {"none", "returned", "AssertionError", "ValueError",
                    "UnboundLocalError"}
    /\ (outcome # "none") <=> (pc = "done")

\* ------------------------------------------------------- notions of the claims
\* some element is a number with a fractional part
HasFraction == \E i \in 1..Len(a) : a[i] # NaN /\ a[i] % Denom # 0

HasData == \E i \in 1..Len(a) : a[i] # NaN

Present == {a[i] \div Denom : i \in {j \in 1..Len(a) : a[j] # NaN}}

Lowest == CHOOSE v \in Present : \A w \in Present : v <= w

Highest == CHOOSE v \in Present : \A w \in Present : w <= v

\* the number L of integers of the value range
RangeLen == Highest - Lowest + 1

ValueRange == [i \in 1..RangeLen |-> Lowest + i - 1]

IntegralWithData == (~HasFraction) /\ HasData

ValidInput == IntegralWithData /\ 1 <= nbins /\ nbins <= RangeLen

Returned == pc = "done" /\ outcome = "returned"

RECURSIVE SortedSeq(_)
SortedSeq(S) ==
    IF S = {} THEN <<>>
    ELSE LET m == CHOOSE x \in S : \A y \in S : x <= y
         IN <<m>> \o SortedSeq(S \ {m})

\* the ascending sequences of nbins - 1 cut positions among 1..L-1
CutTuples ==
    {SortedSeq(c) : c \in {d \in SUBSET (1..(RangeLen - 1)) :
                              Cardinality(d) = nbins - 1}}

LexLess(s, t) ==
    \E p \in 1..Len(s) : s[p] < t[p] /\ \A q \in 1..(p - 1) : s[q] = t[q]

\* the entropy of the candidate with the cut positions c
CandidateH(c) == EvaluateBinning(a, Bins(ValueRange, c))

\* not lower: no other candidate has a strictly higher entropy
Maximal(c) ==
    \A d \in CutTuples :
        ~(CandidateH(d) # NaNH /\ CandidateH(c) # NaNH
          /\ EntropyHigher(CandidateH(d), CandidateH(c)))

RECURSIVE Binomial(_, _)
Binomial(n, k) ==
    IF k = 0 THEN 1
    ELSE IF n = 0 THEN 0
    ELSE Binomial(n - 1, k - 1) + Binomial(n - 1, k)

RECURSIVE Concat(_)
Concat(ss) == IF ss = <<>> THEN <<>> ELSE Head(ss) \o Concat(Tail(ss))

RECURSIVE SumLen(_, _)
SumLen(ss, k) == IF k = 0 THEN 0 ELSE Len(ss[k]) + SumLen(ss, k - 1)

\* the entropy over the occupied labels of b only
OccupiedEntropy(b) ==
    LET labels == NonNaN(b)
        occ == {labels[i] : i \in 1..Len(labels)}
        cnt(k) == Cardinality({i \in 1..Len(labels) : labels[i] = k})
        prod[S \in SUBSET occ] ==
            IF S = {} THEN 1
            ELSE LET k == CHOOSE x \in S : TRUE
                 IN Pow(cnt(k), cnt(k)) * prod[S \ {k}]
    IN IF Cardinality(occ) <= 1 THEN 0 ELSE prod[occ]

\* ---------------------------------------------------------------------- claims
\* C1: whenever bin_sequence returns, the value returned is the application
\* of the first partition, in ascending lexicographic order of the cut
\* positions, among the contiguous nbins-partitions of [amin, amax] of maximal
\* entropy: no candidate has a strictly higher entropy and no earlier one an
\* equal entropy.  [0,0,0,0,1,1,2,2,2,2] with nbins = 2 gives
\* [0,0,0,0,1,1,1,1,1,1].
C1_FirstMaximalPartition ==
    Returned =>
        /\ \E c \in CutTuples :
              /\ result = ApplyBinning(a, Bins(ValueRange, c))
              /\ Maximal(c)
              /\ \A d \in CutTuples :
                    LexLess(d, c) => CandidateH(d) # CandidateH(c)
        /\ (a = ExampleA /\ nbins = 2) => result = ExampleOut

C1_Witness == Returned /\ a = ExampleA /\ nbins = 2 /\ Len(evaluated) = 2
                 /\ evaluated[1].h = evaluated[2].h

\* C2: for every valid input (all elements integral or missing, one element
\* at least not missing, 1 <= nbins <= amax - amin + 1) bin_sequence returns a
\* sequence of the length of a whose non-missing elements are integers of
\* 0..nbins-1.
C2_ValidInputReturnsLabels ==
    (ValidInput /\ pc = "done") =>
        /\ outcome = "returned"
        /\ Len(result) = Len(a)
        /\ \A i \in 1..Len(a) : a[i] # NaN => result[i] \in 0..(nbins - 1)

\* C3: for nbins = 1 and a sequence with a non-missing element bin_sequence
\* returns a sequence whose non-missing elements are all mapped to 0.
C3_OneBinMapsToZero ==
    (IntegralWithData /\ nbins = 1 /\ pc = "done") =>
        /\ outcome = "returned"
        /\ Len(result) = Len(a)
        /\ \A i \in 1..Len(a) : a[i] # NaN => result[i] = 0

\* C4: when nbins exceeds the number of integers of the value range,
\* bin_sequence ends in the error of the infeasible bin count (the exception
\* of line 91, no partition having been kept) and returns no binning.
C4_InfeasibleCountFails ==
    (IntegralWithData /\ nbins > RangeLen) =>
        /\ outcome \in {"none", "UnboundLocalError"}
        /\ result = <<>>
        /\ evaluated = <<>>
        /\ pc = "done" => outcome = "UnboundLocalError"

C4_Witness ==
    /\ a = ExampleInfeasible
    /\ nbins = 5
    /\ pc = "done"
    /\ outcome = "UnboundLocalError"

\* C5: if a non-missing element of a is not integral, bin_sequence ends in
\* the error of the invalid input (the assertion of line 80), and no partition
\* is generated or evaluated before it.
C5_FractionFailsBeforeSearch ==
    HasFraction =>
        /\ outcome \in {"none", "AssertionError"}
        /\ gen = "fresh"
        /\ evaluated = <<>>
        /\ binning = <<>>
        /\ pc \in {"assert", "done"}
        /\ pc = "done" => outcome = "AssertionError"

C5_Witness ==
    /\ a = <<Denom + 1, 2 * Denom>>
    /\ nbins = 2
    /\ pc = "done"
    /\ outcome = "AssertionError"

\* C6: the value returned is missing exactly where a is missing, and its
\* non-missing elements are, position for position, the value bin_sequence
\* returns on a without its missing elements.
C6_MissingPassThrough ==
    Returned =>
        /\ Len(result) = Len(a)
        /\ \A i \in 1..Len(a) : (result[i] = NaN) <=> (a[i] = NaN)
        /\ BinSequence(NonNaN(a), nbins) =
              [outcome |-> "returned", result |-> NonNaN(result)]

C6_Witness ==
    /\ Returned
    /\ Len(a) = 3
    /\ a[2] = NaN
    /\ Len(evaluated) >= 2
    /\ result[2] = NaN
    /\ result[1] # result[3]

\* C7: on a range of L consecutive integers _generate_bins yields, for
\* 1 <= nbins <= L, exactly C(L-1, nbins-1) partitions in ascending
\* lexicographic order of their cut positions (hence pairwise distinct), each
\* made of nbins non-empty runs of consecutive integers whose concatenation is
\* the range; for nbins > L it yields none.
C7_GenerateBins ==
    (nbins >= 1 /\ pc \notin {"assert", "range"} /\ IntegralWithData) =>
        /\ \A k \in 1..Len(evaluated) :
              LET bs == evaluated[k].binning
                  cs == evaluated[k].cuts
              IN /\ Len(bs) = nbins
                 /\ \A j \in 1..Len(bs) :
                       /\ bs[j] # <<>>
                       /\ \A i \in 1..(Len(bs[j]) - 1) :
                             bs[j][i + 1] = bs[j][i] + 1
                 /\ Concat(bs) = ValueRange
                 /\ Len(cs) = nbins - 1
                 /\ \A j \in 1..Len(cs) : cs[j] = SumLen(bs, j)
        /\ \A j, k \in 1..Len(evaluated) :
              j < k => LexLess(evaluated[j].cuts, evaluated[k].cuts)
        /\ gen = "exhausted" =>
              Len(evaluated) = (IF nbins > RangeLen THEN 0
                                ELSE Binomial(RangeLen - 1, nbins - 1))

C7_Witness ==
    /\ gen = "exhausted"
    /\ RangeLen = 5
    /\ nbins = 3
    /\ Len(evaluated) = 6

\* C8: for every sequence and every candidate partition, also one with a
\* group that receives no data point, the evaluator returns a defined,
\* non-negative entropy equal to the sum over the occupied groups only.
C8_EntropyDefined ==
    \A k \in 1..Len(evaluated) :
        /\ evaluated[k].h # NaNH
        /\ evaluated[k].h >= 0
        /\ evaluated[k].h =
              OccupiedEntropy(ApplyBinning(a, evaluated[k].binning))

\* C9: the binning preserves the order: for non-missing a[i], a[j],
\* a[i] <= a[j] implies b[i] <= b[j] and a[i] = a[j] implies b[i] = b[j].
C9_OrderPreserving ==
    Returned =>
        \A i, j \in 1..Len(a) :
            (a[i] # NaN /\ a[j] # NaN) =>
                /\ a[i] <= a[j] => result[i] <= result[j]
                /\ a[i] = a[j] => result[i] = result[j]

C9_Witness ==
    /\ Returned
    /\ nbins = 3
    /\ \E i, j \in 1..Len(a) :
          a[i] # NaN /\ a[j] # NaN /\ i < j /\ a[i] > a[j]
             /\ result[i] > result[j]

\* C10: a returned binning has no empty bin: every label of 0..nbins-1 occurs
\* among the non-missing elements of the value returned, so that a value is
\* returned only if a has at least nbins distinct non-missing values.
C10_NoEmptyBin ==
    Returned =>
        /\ \A k \in 0..(nbins - 1) : \E i \in 1..Len(result) : result[i] = k
        /\ Cardinality(Present) >= nbins

C10_Witness ==
    /\ Returned
    /\ nbins = 3
    /\ RangeLen = 4
    /\ Cardinality(Present) = 3
    /\ \E k \in 1..Len(evaluated) : evaluated[k].h = NaNH
====
